---------------------------- MODULE Spec2Model ----------------------------
(***************************************************************************)
(* Model of the isatty crate (src/src/lib.rs): stdin_isatty,               *)
(* stdout_isatty and stderr_isatty, the cfg-selected backends unix,        *)
(* windows and redox, and the platform calls each backend makes.           *)
(*                                                                         *)
(* The environment (what each platform call answers) is chosen in Init and *)
(* stays fixed during a behaviour; the program is a sequence of queries,   *)
(* each one stepping through its platform calls.                           *)
(***************************************************************************)
EXTENDS Integers, Sequences, FiniteSets

(***************************************************************************)
(* Bounds of the model.                                                    *)
(***************************************************************************)
\* the file name an object reports is built from at most MaxParts pieces
MaxParts == 2

(***************************************************************************)
(* Program constants.                                                      *)
(***************************************************************************)
STDIN_FILENO == 0
STDOUT_FILENO == 1
STDERR_FILENO == 2
\* winapi::minwindef::MAX_PATH
MAX_PATH == 260
\* the size of a layout whose FileName array has one element, padded to
\* the DWORD's alignment
SizeOfFileNameInfoPadded == 4 + 4
\* mem::size_of::<FILE_NAME_INFO>() for the winapi 0.2 layout the crate is
\* written against (winapi::fileapi): a DWORD followed by [WCHAR; 0]
SizeOfFileNameInfo == 4
\* offset of the FileName field the operating system writes the name at:
\* it follows the DWORD FileNameLength
FileNameOffset == 4

(***************************************************************************)
(* Stream kinds and build configuration.                                   *)
(***************************************************************************)
\* mod stream: Stdin exists only under cfg(not(windows))
Stream(tgt) ==
    IF "windows" \in tgt THEN {"Stdout", "Stderr"}
                         ELSE {"Stdin", "Stdout", "Stderr"}

AllStreams == {"Stdin", "Stdout", "Stderr"}

\* the cfg predicates a target can satisfy: the unix family, the windows
\* family, target_os = "redox" (with or without the unix family), none
Targets == { {"unix"}, {"windows"}, {"redox"}, {"redox", "unix"}, {} }

\* the `use <backend>::isatty` items the cfg attributes keep
SelectedBackends(tgt) ==
    {b \in {"unix", "windows", "redox"} : b \in tgt}

\* the crate compiles when the name isatty resolves to one item
Builds(tgt) == Cardinality(SelectedBackends(tgt)) = 1

Backend(tgt) == CHOOSE b \in SelectedBackends(tgt) : TRUE

(***************************************************************************)
(* UTF-16 file names.                                                      *)
(***************************************************************************)
IsHighSurrogate(u) == u >= 55296 /\ u <= 56319
IsLowSurrogate(u) == u >= 56320 /\ u <= 57343

\* OsString::from_wide(..).to_string_lossy(): a surrogate pair becomes one
\* scalar value, an unpaired surrogate becomes U+FFFD, the rest is kept
to_string_lossy(u) ==
    LET Paired(i) == i > 1 /\ IsHighSurrogate(u[i - 1]) /\ IsLowSurrogate(u[i])
        Scalar(i) ==
            IF Paired(i) THEN -1
            ELSE IF i < Len(u) /\ IsHighSurrogate(u[i]) /\ IsLowSurrogate(u[i + 1])
                 THEN 65536 + (u[i] - 55296) * 1024 + (u[i + 1] - 56320)
            ELSE IF IsHighSurrogate(u[i]) \/ IsLowSurrogate(u[i]) THEN 65533
            ELSE u[i]
        Kept(c) == c # -1
    IN SelectSeq([i \in 1 .. Len(u) |-> Scalar(i)], Kept)

\* str::contains
contains(s, pat) ==
    \E i \in 0 .. (Len(s) - Len(pat)) : SubSeq(s, i + 1, i + Len(pat)) = pat

\* "msys-" and "-pty"
PatMsys == << 109, 115, 121, 115, 45 >>
PatPty == << 45, 112, 116, 121 >>

(***************************************************************************)
(* The environment's file names: up to MaxParts pieces, or one piece       *)
(* padded with 'x' to a length around what the buffer can hold.            *)
(***************************************************************************)
Pieces ==
    { PatMsys, PatPty, << 92 >>, << 55357 >>, << 56832 >> }

RECURSIVE Concats(_)
Concats(n) ==
    IF n = 0 THEN { << >> }
    ELSE LET shorter == Concats(n - 1)
         IN shorter \cup { s \o p : s \in shorter, p \in Pieces }

Fill(n) == [i \in 1 .. n |-> 120]

\* lengths one unit short of MAX_PATH bytes, exactly MAX_PATH bytes, and
\* one unit more
PadTargets == { (MAX_PATH \div 2) - 1, MAX_PATH \div 2, (MAX_PATH \div 2) + 1 }

Names ==
    Concats(MaxParts)
        \cup { s \o Fill(t - Len(s)) : s \in Concats(1), t \in PadTargets }

Handles == { "INVALID_HANDLE_VALUE", "NULL", "live" }

VARIABLES
    target,          \* the cfg predicates of the build
    fdTty,           \* unix: what libc::isatty answers for each descriptor
    redoxTty,        \* redox: what termion::is_tty answers for each stream
    stdHandle,       \* windows: what GetStdHandle answers for each identifier
    infoRes,         \* windows: GetFileInformationByHandleEx on the live handle
    FileName,        \* windows: the UTF-16 units of the live handle's name
    FileNameLength,  \* windows: the byte length reported for that name
    consoleRes,      \* windows: GetConsoleMode on the live handle
    pc,              \* position of the running query
    stream,          \* argument of isatty
    handle,          \* windows::isatty: let handle
    name,            \* is_cygwin_pty: let name
    result,          \* the boolean the query returns
    trace,           \* the platform calls of the running query, in order
    seen             \* per stream, the results returned so far

env == << target, fdTty, redoxTty, stdHandle, infoRes, FileName,
          FileNameLength, consoleRes >>
vars == << target, fdTty, redoxTty, stdHandle, infoRes, FileName,
           FileNameLength, consoleRes, pc, stream, handle, name, result,
           trace, seen >>

NoFds == [fd \in {STDIN_FILENO, STDOUT_FILENO, STDERR_FILENO} |-> 0]
NoRedox == [s \in AllStreams |-> FALSE]
NoHandles == [h \in {"STD_OUTPUT_HANDLE", "STD_ERROR_HANDLE"} |-> "NULL"]

InitProgram ==
    /\ pc = "idle"
    /\ stream = "none"
    /\ handle = "none"
    /\ name = << >>
    /\ result = FALSE
    /\ trace = << >>
    /\ seen = [s \in AllStreams |-> {}]

InitUnix ==
    /\ fdTty \in [{STDIN_FILENO, STDOUT_FILENO, STDERR_FILENO} -> {0, 1}]
    /\ redoxTty = NoRedox
    /\ stdHandle = NoHandles
    /\ infoRes = 0 /\ FileName = << >> /\ FileNameLength = 0 /\ consoleRes = 0

InitRedox ==
    /\ fdTty = NoFds
    /\ redoxTty \in [AllStreams -> BOOLEAN]
    /\ stdHandle = NoHandles
    /\ infoRes = 0 /\ FileName = << >> /\ FileNameLength = 0 /\ consoleRes = 0

InitWindows ==
    /\ fdTty = NoFds
    /\ redoxTty = NoRedox
    /\ stdHandle \in [{"STD_OUTPUT_HANDLE", "STD_ERROR_HANDLE"} -> Handles]
    /\ infoRes \in {0, 1}
    /\ consoleRes \in {0, 1}
    /\ FileName \in Names
    /\ FileNameLength \in {2 * Len(FileName), 2 * Len(FileName) + 1}

InitNoBuild ==
    /\ fdTty = NoFds
    /\ redoxTty = NoRedox
    /\ stdHandle = NoHandles
    /\ infoRes = 0 /\ FileName = << >> /\ FileNameLength = 0 /\ consoleRes = 0

Init ==
    /\ target \in Targets
    /\ IF ~Builds(target) THEN InitNoBuild
       ELSE IF Backend(target) = "unix" THEN InitUnix
       ELSE IF Backend(target) = "redox" THEN InitRedox
       ELSE InitWindows
    /\ InitProgram

(***************************************************************************)
(* Public entry points: stdin_isatty (cfg(not(windows))), stdout_isatty,   *)
(* stderr_isatty.  Each calls isatty(stream) of the selected backend.      *)
(***************************************************************************)
EntryPc(b) ==
    IF b = "unix" THEN "libc_isatty"
    ELSE IF b = "windows" THEN "GetStdHandle"
    ELSE "termion_is_tty"

Call(s) ==
    /\ Builds(target)
    /\ pc = "idle"
    /\ s \in Stream(target)
    /\ stream' = s
    /\ trace' = << >>
    /\ pc' = EntryPc(Backend(target))
    /\ UNCHANGED << env, handle, name, result, seen >>

\* the query returns to its caller, which observes the boolean
Return ==
    /\ pc = "done"
    /\ seen' = [seen EXCEPT ![stream] = @ \cup {result}]
    /\ pc' = "idle"
    /\ stream' = "none"
    /\ handle' = "none"
    /\ name' = << >>
    /\ result' = FALSE
    /\ trace' = << >>
    /\ UNCHANGED env

(***************************************************************************)
(* unix::isatty                                                            *)
(***************************************************************************)
FdOfSwapped(s) ==
    IF s = "Stdin" THEN STDIN_FILENO
    ELSE IF s = "Stdout" THEN STDERR_FILENO
    ELSE STDOUT_FILENO

FdOf(s) ==
    IF s = "Stdin" THEN STDIN_FILENO
    ELSE IF s = "Stdout" THEN STDOUT_FILENO
    ELSE STDERR_FILENO

\* a backend that remembers an earlier answer
NonzeroOrCached(ret) == ret # 0 \/ \E s \in AllStreams : TRUE \in seen[s]

Nonzero(ret) == ret # 0

UnixIsatty ==
    /\ pc = "libc_isatty"
    /\ LET fd == FdOf(stream)
           ret == fdTty[fd]
       IN /\ trace' = Append(trace, [call |-> "isatty", arg |-> fd, ret |-> ret])
          /\ result' = Nonzero(ret)
    /\ pc' = "done"
    /\ UNCHANGED << env, stream, handle, name, seen >>

(***************************************************************************)
(* redox::isatty                                                           *)
(***************************************************************************)
RedoxIsatty ==
    /\ pc = "termion_is_tty"
    /\ trace' = Append(trace, [call |-> "is_tty", arg |-> stream,
                               ret |-> redoxTty[stream]])
    /\ result' = redoxTty[stream]
    /\ pc' = "done"
    /\ UNCHANGED << env, stream, handle, name, seen >>

(***************************************************************************)
(* windows::isatty and is_cygwin_pty                                       *)
(***************************************************************************)
StdHandleId(s) ==
    IF s = "Stdout" THEN "STD_OUTPUT_HANDLE" ELSE "STD_ERROR_HANDLE"

WinGetStdHandle ==
    /\ pc = "GetStdHandle"
    /\ LET id == StdHandleId(stream)
       IN /\ handle' = stdHandle[id]
          /\ trace' = Append(trace, [call |-> "GetStdHandle", arg |-> id,
                                     ret |-> stdHandle[id]])
    /\ pc' = "is_cygwin_pty"
    /\ UNCHANGED << env, stream, name, result, seen >>

\* vec![0u8; size + MAX_PATH]
BufferLen == SizeOfFileNameInfo + MAX_PATH

\* the platform's answer: failure on a handle that is no live object, and
\* on a buffer too small for the length field and the name; else as the
\* environment decides
GetFileInformationByHandleEx(h, bufLen) ==
    IF h # "live" THEN 0
    ELSE IF FileNameOffset + FileNameLength > bufLen THEN 0
    ELSE infoRes

\* the 16-bit unit at byte offset off of the zero-initialised buffer after
\* a successful call wrote the name at FileNameOffset
BufferUnit(off) ==
    LET k == (off - FileNameOffset) \div 2
    IN IF off >= FileNameOffset /\ k < Len(FileName) /\ k < FileNameLength \div 2
       THEN FileName[k + 1] ELSE 0

\* &name_info_bytes[size..size + FileNameLength] is in bounds
SliceInBounds == SizeOfFileNameInfo + FileNameLength <= BufferLen

\* slice::from_raw_parts(name_bytes.as_ptr() as *const u16, len / 2)
name_u16 ==
    [j \in 1 .. (FileNameLength \div 2) |->
        BufferUnit(SizeOfFileNameInfo + 2 * (j - 1))]

MatchesBoth(n) == contains(n, PatMsys) /\ contains(n, PatPty)

Matches(n) == contains(n, PatMsys) \/ contains(n, PatPty)

\* a decoder that gives up on invalid UTF-16
StrictOrEmpty(u) ==
    IF \E i \in 1 .. Len(u) : IsHighSurrogate(u[i]) \/ IsLowSurrogate(u[i])
    THEN << >> ELSE u

Decode(u) == to_string_lossy(u)

OnQueryFailureFalse == FALSE

\* if res == 0 { return true; }
OnQueryFailure == TRUE

AlwaysGetConsoleMode(isPty) == "GetConsoleMode"

\* if is_cygwin_pty(handle) { return true; }
AfterCygwinCheck(isPty) == IF isPty THEN "done" ELSE "GetConsoleMode"

WinIsCygwinPty ==
    /\ pc = "is_cygwin_pty"
    /\ LET res == GetFileInformationByHandleEx(handle, BufferLen)
           call == [call |-> "GetFileInformationByHandleEx", arg |-> handle,
                    ret |-> res]
       IN /\ trace' = Append(trace, call)
          /\ IF res = 0
             THEN /\ name' = name
                  /\ result' = OnQueryFailure
                  /\ pc' = AfterCygwinCheck(OnQueryFailure)
             ELSE IF ~SliceInBounds
             THEN /\ name' = name
                  /\ result' = result
                  /\ pc' = "panicked"
             ELSE /\ name' = Decode(name_u16)
                  /\ result' = Matches(name')
                  /\ pc' = AfterCygwinCheck(Matches(name'))
    /\ UNCHANGED << env, stream, handle, seen >>

GetConsoleMode(h) == IF h = "live" THEN consoleRes ELSE 0

IsZero(ret) == ret = 0

ConsoleResult(ret) == ret # 0

WinGetConsoleMode ==
    /\ pc = "GetConsoleMode"
    /\ LET ret == GetConsoleMode(handle)
       IN /\ trace' = Append(trace, [call |-> "GetConsoleMode", arg |-> handle,
                                     ret |-> ret])
          /\ result' = ConsoleResult(ret)
    /\ pc' = "done"
    /\ UNCHANGED << env, stream, handle, name, seen >>

Next ==
    \/ \E s \in AllStreams : Call(s)
    \/ Return
    \/ UnixIsatty
    \/ RedoxIsatty
    \/ WinGetStdHandle
    \/ WinIsCygwinPty
    \/ WinGetConsoleMode

Spec == Init /\ [][Next]_vars

(***************************************************************************)
(* Vocabulary of the properties.                                           *)
(***************************************************************************)
BackendIs(b) == Builds(target) /\ Backend(target) = b

Calls == [i \in 1 .. Len(trace) |-> trace[i].call]

WinCalls == << "GetStdHandle", "GetFileInformationByHandleEx", "GetConsoleMode" >>

\* the running console-API query has made its file-information query
Queried == BackendIs("windows") /\ Len(trace) >= 2

QuerySucceeded == Queried /\ trace[2].ret # 0

QueryFailed == Queried /\ trace[2].ret = 0

\* the name the object reports holds one of the two substrings
NameHasMarker == contains(FileName, PatMsys) \/ contains(FileName, PatPty)

HasUnpairedSurrogate(u) ==
    \E i \in 1 .. Len(u) :
        \/ IsHighSurrogate(u[i]) /\ ~(i < Len(u) /\ IsLowSurrogate(u[i + 1]))
        \/ IsLowSurrogate(u[i]) /\ ~(i > 1 /\ IsHighSurrogate(u[i - 1]))

Malformed ==
    \/ FileNameLength % 2 = 1
    \/ FileNameLength = 0
    \/ HasUnpairedSurrogate(FileName)

(***************************************************************************)
(* C1.  On the POSIX backend a finished query has called the isatty        *)
(* primitive exactly once, on descriptor 0 for Stdin, 1 for Stdout and 2   *)
(* for Stderr, and returns true iff the primitive's answer for that        *)
(* descriptor is nonzero (so false when the primitive answers 0).          *)
(***************************************************************************)
C1_PosixQuery ==
    (BackendIs("unix") /\ pc = "done") =>
        LET fd == CASE stream = "Stdin" -> 0
                    [] stream = "Stdout" -> 1
                    [] stream = "Stderr" -> 2
        IN /\ Len(trace) = 1
           /\ trace[1].call = "isatty"
           /\ trace[1].arg = fd
           /\ trace[1].ret = fdTty[fd]
           /\ result = (fdTty[fd] # 0)
           /\ (fdTty[fd] = 0 => result = FALSE)

\* Stderr is not a terminal while Stdout is, and the Stderr query says false
C1_Witness ==
    /\ BackendIs("unix") /\ pc = "done" /\ stream = "Stderr"
    /\ fdTty[2] = 0 /\ fdTty[1] = 1 /\ result = FALSE

(***************************************************************************)
(* C2.  No query panics: a query is always at one of its own steps, makes  *)
(* at most three platform calls, and ends with a boolean.                  *)
(***************************************************************************)
C2_NoPanic ==
    /\ pc # "panicked"
    /\ Len(trace) <= 3
    /\ pc \in {"idle", "libc_isatty", "termion_is_tty", "GetStdHandle",
              "is_cygwin_pty", "GetConsoleMode", "done"}
    /\ (pc = "done" => result \in BOOLEAN)

\* a name that fills the buffer to its last byte was sliced and decoded
C2_Witness ==
    /\ BackendIs("windows") /\ pc = "done" /\ QuerySucceeded
    /\ FileNameLength = MAX_PATH
    /\ Len(name) > 0

(***************************************************************************)
(* C3.  On the console-API backend, when GetStdHandle gives an invalid or  *)
(* null handle, the finished query returns false.                          *)
(***************************************************************************)
C3_ResolutionFailureFalse ==
    (BackendIs("windows") /\ pc = "done"
        /\ handle \in {"INVALID_HANDLE_VALUE", "NULL"}) => result = FALSE

(***************************************************************************)
(* C4.  On the console-API backend, when the file-information query        *)
(* returned 0 the finished query returns true, without asking for the      *)
(* console mode.                                                           *)
(***************************************************************************)
C4_QueryFailureTrue ==
    (QueryFailed /\ pc = "done") =>
        /\ result = TRUE
        /\ Calls = SubSeq(WinCalls, 1, 2)

\* the query fails on a live handle whose console-mode call would fail too
C4_Witness ==
    /\ QueryFailed /\ pc = "done" /\ handle = "live"
    /\ consoleRes = 0 /\ result = TRUE

(***************************************************************************)
(* C5.  On the console-API backend, when the file-information query        *)
(* succeeded and the reported name holds "msys-" or "-pty" at any          *)
(* position, the finished query returns true.                              *)
(***************************************************************************)
C5_MarkerTrue ==
    (QuerySucceeded /\ pc = "done" /\ NameHasMarker) => result = TRUE

\* "msys-" at the very start, no "-pty", and a console-mode call that fails
C5_Witness ==
    /\ QuerySucceeded /\ pc = "done"
    /\ Len(FileName) >= 5 /\ SubSeq(FileName, 1, 5) = PatMsys
    /\ ~contains(FileName, PatPty)
    /\ consoleRes = 0 /\ result = TRUE

(***************************************************************************)
(* C6.  On the console-API backend, when the file-information query        *)
(* succeeded, the name holds neither substring and the console-mode call   *)
(* returns 0, the finished query returns false.                            *)
(***************************************************************************)
C6_NoMarkerConsoleFails ==
    (QuerySucceeded /\ pc = "done" /\ ~NameHasMarker /\ consoleRes = 0) =>
        result = FALSE

C6_Witness ==
    /\ QuerySucceeded /\ pc = "done" /\ ~NameHasMarker /\ consoleRes = 0
    /\ Len(FileName) > 0 /\ result = FALSE

(***************************************************************************)
(* C7.  While the environment does not change, every query of a stream     *)
(* returns the same boolean: the results seen for a stream are never two,  *)
(* and a finished query agrees with every earlier result for its stream.   *)
(***************************************************************************)
C7_Idempotent ==
    /\ \A s \in AllStreams : Cardinality(seen[s]) <= 1
    /\ (pc = "done" => seen[stream] \subseteq {result})

\* a repeated query of one stream, after another stream answered otherwise
C7_Witness ==
    /\ pc = "done" /\ seen[stream] = {result}
    /\ \E s \in AllStreams : seen[s] = {~result}

(***************************************************************************)
(* C8 as stated.  On the console-API backend, when the file-information    *)
(* query succeeded with malformed name metadata (odd byte length, invalid  *)
(* UTF-16, zero length), the emulation check reports no match and the      *)
(* result is that of the console-mode call alone.                          *)
(***************************************************************************)
C8_MalformedNoMatch ==
    (QuerySucceeded /\ pc = "done" /\ Malformed) =>
        /\ result = (consoleRes # 0)
        /\ Calls = WinCalls

(***************************************************************************)
(* C8 amended.  Malformed name metadata is decoded, not rejected: the odd  *)
(* trailing byte is dropped and invalid UTF-16 units are replaced.  The    *)
(* emulation check reports no match, and the console-mode call alone       *)
(* decides, exactly when the name holds neither substring (always so for   *)
(* zero length); a malformed name that holds one returns true.             *)
(***************************************************************************)
C8_MalformedDecoded ==
    (QuerySucceeded /\ pc = "done" /\ Malformed) =>
        IF NameHasMarker
        THEN result = TRUE /\ Calls = SubSeq(WinCalls, 1, 2)
        ELSE result = (consoleRes # 0) /\ Calls = WinCalls

\* invalid UTF-16 and an odd length around "-pty": still reported a terminal
C8_Witness ==
    /\ QuerySucceeded /\ pc = "done"
    /\ HasUnpairedSurrogate(FileName) /\ FileNameLength % 2 = 1
    /\ contains(FileName, PatPty)
    /\ consoleRes = 0 /\ result = TRUE

(***************************************************************************)
(* C9.  Every target configuration selects exactly one backend.            *)
(***************************************************************************)
C9_ExactlyOneBackend == Cardinality(SelectedBackends(target)) = 1

(***************************************************************************)
(* C10.  A console-API query calls GetStdHandle, then                      *)
(* GetFileInformationByHandleEx, then GetConsoleMode, in that order;       *)
(* GetConsoleMode is called only after a file-information query that       *)
(* succeeded on a name holding neither substring, and then the result is   *)
(* true iff GetConsoleMode returned nonzero.                               *)
(***************************************************************************)
C10_CallOrder ==
    BackendIs("windows") =>
        /\ Len(trace) <= 3
        /\ Calls = SubSeq(WinCalls, 1, Len(trace))
        /\ (pc = "GetConsoleMode" \/ Len(trace) = 3) =>
               (QuerySucceeded /\ ~NameHasMarker)
        /\ (pc = "done" /\ Len(trace) = 3) => result = (trace[3].ret # 0)
        /\ (pc = "done" /\ QuerySucceeded /\ ~NameHasMarker) => Len(trace) = 3

C10_Witness ==
    /\ BackendIs("windows") /\ pc = "done" /\ Len(trace) = 3
    /\ trace[3].ret # 0 /\ result = TRUE /\ Len(FileName) > 0

=============================================================================
